---- MODULE Spec2Model ----
(***************************************************************************)
(* Offline-first persistence of the Artizan test app: the database client  *)
(* (db/client.ts), the App bootstrap (App.tsx) and the products and sales  *)
(* repositories (repositories/*.repo.ts).                                  *)
(*                                                                         *)
(* Every `await` of the source is a point where other callbacks may run,   *)
(* so every handler is cut into one action per stretch of code between     *)
(* two awaits.  A promise settles in the action that ends the task behind  *)
(* it; whoever awaits it resumes in a later action of its own.             *)
(***************************************************************************)
EXTENDS Integers, FiniteSets, Sequences, TLC

\* ------------------------------------------------------------------ bounds
\* Initialization attempts that may be started (each opens the database).
MaxAttempts == 2
\* Concurrent callers of the client / repository API besides the bootstrap.
NumCallers == 1
\* Last reading the wall clock may give.
MaxNow == 1
\* Rows the callers keep stored at a time, over both tables.
MaxRows == 2
\* Concurrent callers of the service layer.
NumClients == 2

Callers == 1..NumCallers
\* The bootstrap (the App component) is a process of its own, process 0.
AppProc == 0
Procs == Callers \cup {AppProc}
\* The callers of the service layer are processes of their own.
Clients == (NumCallers + 1)..(NumCallers + NumClients)
AllProcs == Procs \cup Clients
Attempts == 1..MaxAttempts

\* ------------------------------------------------------------------ state
VARIABLES
  sqliteDb,               \* client.ts: 0 = null, else the handle opened by that attempt
  drizzleDb,              \* client.ts: 0 = null, else the wrapper of that handle
  isInitialized,          \* client.ts
  initializationPromise,  \* client.ts: 0 = null, else the attempt whose promise it is
  initTask,               \* per attempt: the async IIFE's position / its promise's state
  openCalls,              \* number of SQLite.openDatabaseAsync calls made so far
  migrationCalls,         \* number of runMigrations calls made so far
  op,                     \* per process: the API function it is executing
  pc,                     \* per process: its position in that function
  waitOn,                 \* per process: the attempt whose promise it awaits (0: none)
  ens,                    \* per process: how its ensureDBReady() settled
  ret,                    \* per process: how its last call settled
  isDBReady,              \* App.tsx useState
  initError,              \* App.tsx useState ("" stands for null)
  tables,                 \* the stored rows: tables.products, tables.sales, by id
  now,                    \* the last reading of the wall clock
  arg,                    \* per process: the id its call is about ("" before it is known)
  hit,                    \* per process: the rows its UPDATE statement matched, as they were
  svc,                    \* per process: the service function it is in, with its locals
  schema,                 \* the tables and indexes app.db holds, by name
  hookState,              \* per hook: its useState values (products / sales, loading, error)
  focusEffect             \* per screen: its focus effect (focused, the effect's `cancelled`)

engineVars == <<sqliteDb, drizzleDb, isInitialized, initializationPromise,
                initTask, openCalls, migrationCalls, schema>>
procVars == <<op, pc, waitOn, ens, ret, arg, hit, svc>>
appVars == <<isDBReady, initError, hookState, focusEffect>>
dataVars == <<tables, now>>
vars == <<engineVars, procVars, appVars, dataVars>>

\* Error messages of the client.
ErrInitFailed == "Failed to initialize database"
ErrNotReady == "[Database] Not ready. Call initializeDatabase() in App.tsx first."
ErrNotInitialized == "[Database] Not initialized. Call ensureDBReady() before getDB()."

\* No service function is being executed.
NoService == [fn |-> "none"]

\* useState([]), useState(false), useState(null) of useProducts / useSales.
HookMounted == [data |-> {}, loading |-> FALSE, error |-> ""]

\* A screen whose focus effect has not run.
EffectNone == [focused |-> FALSE, cancelled |-> FALSE]

\* The module as loaded, the tables as a fresh install has them, and the
\* clock reading t.
Started(t) ==
  /\ sqliteDb = 0
  /\ drizzleDb = 0
  /\ isInitialized = FALSE
  /\ initializationPromise = 0
  /\ initTask = [a \in Attempts |-> "none"]
  /\ openCalls = 0
  /\ migrationCalls = 0
  /\ op = [p \in AllProcs |-> "none"]
  /\ pc = [p \in AllProcs |-> "idle"]
  /\ waitOn = [p \in AllProcs |-> 0]
  /\ ens = [p \in AllProcs |-> "none"]
  /\ ret = [p \in AllProcs |-> "none"]
  /\ isDBReady = FALSE
  /\ initError = ""
  /\ tables = [products |-> <<>>, sales |-> <<>>]
  /\ now = t
  /\ arg = [p \in AllProcs |-> ""]
  /\ hit = [p \in AllProcs |-> {}]
  /\ svc = [p \in AllProcs |-> NoService]
  /\ schema = {}
  /\ hookState = [products |-> HookMounted, sales |-> HookMounted]
  /\ focusEffect = [products |-> EffectNone, sales |-> EffectNone]

Init == Started(0)

\* ------------------------------------------------------- db/client.ts
Settled(a) == initTask[a] \in {"fulfilled", "rejected"}

\* A plausible slip: no de-duplication of calls made while one is in flight.
InitInProgressNever == FALSE

\* `if (initializationPromise)`: an initialization is in progress (or succeeded).
InitInProgress == initializationPromise # 0

\* A process is free to make a call when it is not inside one.
Free(p) == pc[p] \in {"idle", "returned"}

\* A call of operation o by process p starts: what the last call left is dropped.
Enter(p, o) ==
  /\ Free(p)
  /\ op' = [op EXCEPT ![p] = o]
  /\ arg' = [arg EXCEPT ![p] = ""]
  /\ hit' = [hit EXCEPT ![p] = {}]

\* initializeDatabase(), from its entry to its return of a promise.
InitializeDatabase(p) ==
  /\ Enter(p, "initializeDatabase")
  /\ ens' = [ens EXCEPT ![p] = "none"]
  /\ IF InitInProgress
       THEN \* "Initialization already in progress, waiting..."
            /\ waitOn' = [waitOn EXCEPT ![p] = initializationPromise]
            /\ pc' = [pc EXCEPT ![p] = "awaitInit"]
            /\ ret' = [ret EXCEPT ![p] = "none"]
            /\ UNCHANGED engineVars
       ELSE IF isInitialized
       THEN \* "Already initialized"
            /\ waitOn' = [waitOn EXCEPT ![p] = 0]
            /\ pc' = [pc EXCEPT ![p] = "returned"]
            /\ ret' = [ret EXCEPT ![p] = "ok"]
            /\ UNCHANGED engineVars
       ELSE \* the async IIFE starts and runs up to `await openDatabaseAsync`
            /\ openCalls < MaxAttempts
            /\ LET a == openCalls + 1 IN
                 /\ initializationPromise' = a
                 /\ initTask' = [initTask EXCEPT ![a] = "opening"]
                 /\ openCalls' = a
                 /\ waitOn' = [waitOn EXCEPT ![p] = a]
            /\ pc' = [pc EXCEPT ![p] = "awaitInit"]
            /\ ret' = [ret EXCEPT ![p] = "none"]
            /\ UNCHANGED <<sqliteDb, drizzleDb, isInitialized, migrationCalls, schema>>
  /\ UNCHANGED <<appVars, svc, dataVars>>

\* The catch block of the IIFE: reset state so retry is possible, then throw.
InitCatch(a) ==
  /\ initializationPromise' = 0
  /\ sqliteDb' = 0
  /\ drizzleDb' = 0
  /\ isInitialized' = FALSE
  /\ initTask' = [initTask EXCEPT ![a] = "rejected"]

\* `await SQLite.openDatabaseAsync('app.db')` settles; on success the IIFE
\* goes on to drizzle(...) and calls runMigrations.
OpenSettles(a) ==
  /\ initTask[a] = "opening"
  /\ \E ok \in BOOLEAN :
       IF ok
         THEN /\ sqliteDb' = a
              /\ drizzleDb' = a
              /\ migrationCalls' = migrationCalls + 1
              /\ initTask' = [initTask EXCEPT ![a] = "migrating"]
              /\ UNCHANGED <<isInitialized, initializationPromise>>
         ELSE /\ InitCatch(a)
              /\ UNCHANGED migrationCalls
  /\ UNCHANGED <<openCalls, schema, procVars, appVars, svc, dataVars>>

\* The statements of runMigrations, in their order: the object each creates.
MigrationTables == <<"products", "sales">>
MigrationIndexes ==
  <<"idx_products_deleted_at", "idx_products_sync_status", "idx_sales_deleted_at",
    "idx_sales_sync_status", "idx_sales_product_id">>
Migrations == MigrationTables \o MigrationIndexes

\* A plausible slip: the table is created anew, as resetDatabase does.
CreateTableAfterDrop(db, name) ==
  [schema |-> db.schema \cup {name}, tables |-> [db.tables EXCEPT ![name] = <<>>]]

\* CREATE TABLE IF NOT EXISTS <name> on database db (its objects and rows).
CreateTableIfNotExists(db, name) ==
  IF name \in db.schema THEN db
  ELSE [schema |-> db.schema \cup {name}, tables |-> [db.tables EXCEPT ![name] = <<>>]]

\* CREATE INDEX IF NOT EXISTS <name>
CreateIndexIfNotExists(db, name) ==
  IF name \in db.schema THEN db ELSE [db EXCEPT !.schema = @ \cup {name}]

\* The database after the first n statements of runMigrations.
RECURSIVE runMigrations(_, _)
runMigrations(db, n) ==
  IF n = 0 THEN db
  ELSE LET before == runMigrations(db, n - 1) IN
       IF n <= Len(MigrationTables)
         THEN CreateTableIfNotExists(before, Migrations[n])
         ELSE CreateIndexIfNotExists(before, Migrations[n])

\* `await runMigrations(sqliteDb)` settles: all its statements ran, or one
\* of them failed after those before it ran.
MigrationsSettle(a) ==
  /\ initTask[a] = "migrating"
  /\ \E n \in 0..Len(Migrations) :
       LET db == runMigrations([schema |-> schema, tables |-> tables], n) IN
         /\ schema' = db.schema
         /\ tables' = db.tables
         /\ IF n = Len(Migrations)
              THEN /\ isInitialized' = TRUE
                   /\ initTask' = [initTask EXCEPT ![a] = "fulfilled"]
                   /\ UNCHANGED <<sqliteDb, drizzleDb, initializationPromise>>
              ELSE InitCatch(a)
  /\ UNCHANGED <<openCalls, migrationCalls, procVars, appVars, svc, now>>

\* A caller of initializeDatabase() resumes once the promise it was handed
\* has settled, with that promise's outcome.
InitializeDatabaseReturn(p) ==
  /\ pc[p] = "awaitInit"
  /\ Settled(waitOn[p])
  /\ ret' = [ret EXCEPT ![p] =
               IF initTask[waitOn[p]] = "fulfilled" THEN "ok" ELSE ErrInitFailed]
  /\ pc' = [pc EXCEPT ![p] = "returned"]
  /\ UNCHANGED <<engineVars, op, waitOn, ens, arg, hit, appVars, svc, dataVars>>

\* A plausible slip: the readiness check left out.
EnsureCheckAlwaysOk == "ok"

\* The check at the end of ensureDBReady().
EnsureCheck == IF ~isInitialized \/ drizzleDb = 0 THEN ErrNotReady ELSE "ok"

\* ensureDBReady(), from its entry to its first await or its end.
EnsureDBReadyEnter(p) ==
  IF initializationPromise # 0 /\ ~isInitialized
    THEN /\ waitOn' = [waitOn EXCEPT ![p] = initializationPromise]
         /\ pc' = [pc EXCEPT ![p] = "awaitEnsure"]
         /\ ens' = [ens EXCEPT ![p] = "none"]
    ELSE /\ waitOn' = [waitOn EXCEPT ![p] = 0]
         /\ pc' = [pc EXCEPT ![p] = "ensured"]
         /\ ens' = [ens EXCEPT ![p] = EnsureCheck]

\* ensureDBReady() resumes after `await initializationPromise`: a rejection
\* is rethrown, otherwise the check runs.
EnsureDBReadyResume(p) ==
  /\ pc[p] = "awaitEnsure"
  /\ Settled(waitOn[p])
  /\ ens' = [ens EXCEPT ![p] =
               IF initTask[waitOn[p]] = "rejected" THEN ErrInitFailed ELSE EnsureCheck]
  /\ pc' = [pc EXCEPT ![p] = "ensured"]
  /\ UNCHANGED <<engineVars, op, waitOn, ret, arg, hit, appVars, svc, dataVars>>

\* A plausible slip: getDB() hands out the handle as soon as it is set.
getDBNoInitCheck == drizzleDb

\* getDB(): the handle, or 0 where it throws.
getDB == IF drizzleDb = 0 \/ ~isInitialized THEN 0 ELSE drizzleDb

\* getSQLiteDB(): the handle, or 0 where it throws.
getSQLiteDB == IF sqliteDb = 0 \/ ~isInitialized THEN 0 ELSE sqliteDb

\* isDatabaseReady()
isDatabaseReady == isInitialized

\* A direct call of ensureDBReady() by a caller.
EnsureDBReadyCall(p) ==
  /\ Enter(p, "ensureDBReady")
  /\ EnsureDBReadyEnter(p)
  /\ ret' = [ret EXCEPT ![p] = "none"]
  /\ UNCHANGED <<engineVars, appVars, svc, dataVars>>

EnsureDBReadyReturn(p) ==
  /\ pc[p] = "ensured"
  /\ op[p] = "ensureDBReady"
  /\ ret' = [ret EXCEPT ![p] = ens[p]]
  /\ pc' = [pc EXCEPT ![p] = "returned"]
  /\ UNCHANGED <<engineVars, op, waitOn, ens, arg, hit, appVars, svc, dataVars>>

\* ------------------------------------------------------- stored values
\* Ticks of the clock per second and per day.
TicksPerSec == 2
TicksPerDay == 2

ProductIds == {"p1", "p2"}
SaleIds == {"s1"}
Names == {"a", "b"}
Prices == {1}
Quantities == {1}
Totals == {2}

\* The JavaScript numbers are modelled by the integers; -1 stands for NaN
\* (the negative numbers are otherwise left out).
NaN == 0 - 1

\* x <= y and x * y of JavaScript numbers.
JsLeq(x, y) == x # NaN /\ y # NaN /\ x <= y
JsTimes(x, y) == IF x = NaN \/ y = NaN THEN NaN ELSE x * y

\* The REAL and INTEGER columns, all NOT NULL.  SQLite binds NaN as NULL.
NumberColumns == {"price", "quantity", "total"}
BindsNull(data) == \E c \in DOMAIN data \cap NumberColumns : data[c] = NaN

\* SQL NULL / a column the caller did not supply.
NULL == <<>>

\* A TEXT timestamp is modelled by the fields its characters spell, in the
\* order of the characters: the date, the separator (0 for ' ', 1 for 'T'),
\* the time of day.  Text compares character by character, so in this order.
Day(t) == t \div TicksPerDay
Tod(t) == t % TicksPerDay

\* SQLite's datetime('now'): 'YYYY-MM-DD HH:MM:SS', whole seconds.
SqliteDatetimeNow(t) == <<Day(t), 0, (Tod(t) \div TicksPerSec) * TicksPerSec>>

\* new Date().toISOString(): 'YYYY-MM-DDTHH:MM:SS.sssZ'.
toISOString(t) == <<Day(t), 1, Tod(t)>>

\* The order of two TEXT timestamps as strings.
TextLeq(x, y) ==
  \/ x[1] < y[1]
  \/ x[1] = y[1] /\ x[2] < y[2]
  \/ x[1] = y[1] /\ x[2] = y[2] /\ x[3] <= y[3]

\* Readings the clock may give from now on.
Readings == now..MaxNow

Table(k) == tables[k]
Ids(k) == IF k = "products" THEN ProductIds ELSE SaleIds
Stored(k) == DOMAIN tables[k]
RowCount == Cardinality(DOMAIN tables.products) + Cardinality(DOMAIN tables.sales)
Row(k, id) == tables[k][id]

\* The columns a caller may pass to create and update (the TypeScript
\* parameter types): data is a function from some of them to values.
ProductCreates == [name : Names, price : Prices]
SaleCreates == [product_id : ProductIds, quantity : Quantities, total : Totals]
Creates(k) == IF k = "products" THEN ProductCreates ELSE SaleCreates

\* The properties cols of the object full.
Pick(full, cols) == [c \in cols |-> full[c]]

\* Partial<Omit<Product, 'id' | 'created_at' | 'deleted_at'>>: any of name,
\* price, updated_at, sync_status.
ProductUpdates ==
  { Pick(full, cols) :
      full \in [name : Names, price : Prices,
                updated_at : {toISOString(0)}, sync_status : {"synced"}],
      cols \in SUBSET {"name", "price", "updated_at", "sync_status"} }

\* Partial<Omit<Sale, 'id' | 'created_at' | 'deleted_at'>>
SaleUpdates ==
  { Pick(full, cols) :
      full \in [product_id : ProductIds, quantity : Quantities, total : Totals,
                updated_at : {toISOString(0)}, sync_status : {"synced"}],
      cols \in SUBSET {"product_id", "quantity", "total", "updated_at", "sync_status"} }
Updates(k) == IF k = "products" THEN ProductUpdates ELSE SaleUpdates

\* Object spread {...x, ...y}: y's properties win.
Spread(x, y) ==
  [c \in DOMAIN x \cup DOMAIN y |-> IF c \in DOMAIN y THEN y[c] ELSE x[c]]

\* ------------------------------------------------------- SQL statements
\* INSERT INTO <k> of the values object v: the columns v leaves out take the
\* defaults of the CREATE TABLE statement.
InsertRow(v, t) ==
  Spread([created_at |-> SqliteDatetimeNow(t),
          updated_at |-> SqliteDatetimeNow(t),
          deleted_at |-> NULL,
          sync_status |-> "pending"], v)

\* UPDATE <k> SET <set> WHERE id = <id>: no row with that id, nothing changes.
UpdateWhereId(tbl, id, set) ==
  [i \in DOMAIN tbl |-> IF i = id THEN Spread(tbl[i], set) ELSE tbl[i]]

\* DELETE FROM <k> WHERE id = <id>
DeleteWhereId(tbl, id) == [i \in DOMAIN tbl \ {id} |-> tbl[i]]

\* A plausible slip: the record stored as if it had been synced already.
CreateValuesSynced(data) == Spread(data, [sync_status |-> "synced"])

\* The values object of create: { id: uuid.v4(), ...data, sync_status: 'pending' }
\* (the id is the key the row is stored under).
CreateValues(data) == Spread(data, [sync_status |-> "pending"])

\* A plausible slip: the caller's data spread last, over the stamped columns.
UpdateSetDataLast(data, t) ==
  Spread([updated_at |-> toISOString(t), sync_status |-> "pending"], data)

\* A plausible slip: the update stamps created_at as well.
UpdateSetStampsCreated(data, t) ==
  Spread(data, [updated_at |-> toISOString(t), sync_status |-> "pending",
                created_at |-> toISOString(t)])

\* A plausible slip: an update brings a soft-deleted record back.
UpdateSetRevives(data, t) ==
  Spread(data, [updated_at |-> toISOString(t), sync_status |-> "pending",
                deleted_at |-> NULL])

\* The SET object of update: { ...data, updated_at: now, sync_status: 'pending' }
UpdateSet(data, t) ==
  Spread(data, [updated_at |-> toISOString(t), sync_status |-> "pending"])

\* The SET object of the soft delete; the clock is read twice.
SoftDeleteSet(t1, t2) ==
  [deleted_at |-> toISOString(t1),
   updated_at |-> toISOString(t2),
   sync_status |-> "pending"]

\* A plausible slip: markAsSynced counted as a modification of the record.
MarkSyncedSetStamped == [sync_status |-> "synced", updated_at |-> toISOString(now)]

\* The SET object of markAsSynced.
MarkSyncedSet == [sync_status |-> "synced"]

\* A plausible slip: the deleted_at filter left out.
SelectActiveNoFilter(tbl) == DOMAIN tbl

\* SELECT ... WHERE deleted_at IS NULL (the ids of the rows returned)
SelectActive(tbl) == {i \in DOMAIN tbl : tbl[i].deleted_at = NULL}

\* A plausible slip: only active rows are looked at.
SelectPendingActiveOnly(tbl) ==
  {i \in DOMAIN tbl : tbl[i].sync_status = "pending" /\ tbl[i].deleted_at = NULL}

\* SELECT ... WHERE sync_status = 'pending'
SelectPending(tbl) == {i \in DOMAIN tbl : tbl[i].sync_status = "pending"}

\* A plausible slip: the deleted_at condition left out of the lookup.
SelectByIdNoFilter(tbl, id, includeDeleted) == IF id \in DOMAIN tbl THEN id ELSE ""

\* SELECT ... WHERE id = <id> [AND deleted_at IS NULL] LIMIT 1, then result[0]:
\* the id when a row is returned, "" for undefined.
SelectById(tbl, id, includeDeleted) ==
  IF id \in DOMAIN tbl /\ (includeDeleted \/ tbl[id].deleted_at = NULL)
    THEN id ELSE ""

\* A plausible slip: the sales of a soft-deleted product are hidden with it.
SelectByProductIdOfActive(tbl, productId) ==
  {i \in DOMAIN tbl : /\ tbl[i].product_id = productId
                       /\ tbl[i].deleted_at = NULL
                       /\ productId \in SelectActive(tables.products)}

\* SELECT ... FROM sales WHERE product_id = <productId> AND deleted_at IS NULL
SelectByProductId(tbl, productId) ==
  {i \in DOMAIN tbl : tbl[i].product_id = productId /\ tbl[i].deleted_at = NULL}

\* The product columns of a joined row: the products row with the sale's
\* product_id if there is one (a set of at most one), all NULL otherwise.
JoinedProduct(tblProducts, productId) ==
  {[id |-> i, name |-> tblProducts[i].name, price |-> tblProducts[i].price] :
     i \in DOMAIN tblProducts \cap {productId}}

\* SELECT ... FROM sales LEFT JOIN products ON sales.product_id = products.id
\* WHERE sales.deleted_at IS NULL AND products.deleted_at IS NULL
\* (a row of sales without a products row has products.deleted_at NULL).
SelectSalesWithProducts(tblSales, tblProducts) ==
  {[sale |-> i, product |-> JoinedProduct(tblProducts, tblSales[i].product_id)] :
     i \in {j \in DOMAIN tblSales :
              /\ tblSales[j].deleted_at = NULL
              /\ \A q \in DOMAIN tblProducts \cap {tblSales[j].product_id} :
                    tblProducts[q].deleted_at = NULL}}

\* ------------------------------------------------------- repositories
ErrConstraint == "UNIQUE constraint failed"
ErrNotNull == "NOT NULL constraint failed"
ErrNotFoundAfterUpdate == "not found after update"

ProductOps == {"createProduct", "updateProduct", "deleteProduct", "hardDeleteProduct",
               "markProductAsSynced", "getAllProducts", "getProductById",
               "getUnsyncedProducts"}
SaleOps == {"createSale", "updateSale", "deleteSale", "hardDeleteSale",
            "markSaleAsSynced", "getAllSales", "getSaleById", "getUnsyncedSales",
            "getAllSalesWithProducts", "getSalesByProductId"}
ReadOps == {"getAllProducts", "getProductById", "getUnsyncedProducts",
            "getAllSales", "getSaleById", "getUnsyncedSales",
            "getAllSalesWithProducts", "getSalesByProductId"}
RepoOps == ProductOps \cup SaleOps

CreateOps == {"createProduct", "createSale"}

\* The processes inside a create call that has not inserted yet.
Creating ==
  {q \in AllProcs : op[q] \in CreateOps /\ pc[q] \in {"awaitEnsure", "ensured"}}

\* The call settles, with an error or with "ok" for its result.  Which call
\* it was is not kept; a soft delete leaves its id and what it matched, a
\* markAsSynced its id.
Settle(p, e) ==
  /\ ret' = [ret EXCEPT ![p] = e]
  /\ pc' = [pc EXCEPT ![p] = "returned"]
  /\ op' = [op EXCEPT ![p] = "none"]

Throw(p, e) == Settle(p, e) /\ UNCHANGED <<arg, hit>>

Return(p) ==
  /\ Settle(p, "ok")
  /\ arg' = [arg EXCEPT ![p] = ""]
  /\ hit' = [hit EXCEPT ![p] = {}]

\* The rows of table tbl a statement with WHERE id = <id> matches.
Matched(tbl, id) == {tbl[i] : i \in DOMAIN tbl \cap {id}}

\* Every repository function opens with `await ensureDBReady();`.
RepoCall(p, o) ==
  /\ o \in CreateOps => RowCount + Cardinality(Creating) < MaxRows
  /\ Enter(p, o)
  /\ EnsureDBReadyEnter(p)
  /\ ret' = [ret EXCEPT ![p] = "none"]
  /\ UNCHANGED <<engineVars, appVars, svc, dataVars>>

\* A plausible slip: the error of ensureDBReady() swallowed.
GateIgnoresEnsure(p) == IF getDB = 0 THEN ErrNotInitialized ELSE "ok"

\* `await ensureDBReady(); const db = getDB();` of function o is behind
\* process p: the error it goes on with, "ok" when it has a handle.
Gate(p) ==
  IF ens[p] # "ok" THEN ens[p]
  ELSE IF getDB = 0 THEN ErrNotInitialized
  ELSE "ok"

AtBody(p, o) == pc[p] = "ensured" /\ op[p] = o

\* createProduct / createSale up to the end of `await db.insert(...)`, called
\* with a data object of the set D.
CreateOf(p, k, o, D) ==
  /\ AtBody(p, o)
  /\ IF Gate(p) # "ok"
       THEN Throw(p, Gate(p)) /\ UNCHANGED <<tables, now>>
       ELSE \E id \in Ids(k), data \in D, t \in Readings :
              IF id \in Stored(k)
                THEN \* id TEXT PRIMARY KEY
                     Throw(p, ErrConstraint) /\ UNCHANGED <<tables, now>>
                ELSE IF BindsNull(data)
                THEN Throw(p, ErrNotNull) /\ UNCHANGED <<tables, now>>
                ELSE /\ tables' = [tables EXCEPT ![k] =
                                     (id :> InsertRow(CreateValues(data), t)) @@ @]
                     /\ now' = t
                     /\ arg' = [arg EXCEPT ![p] = id]
                     /\ pc' = [pc EXCEPT ![p] = "reread"]
                     /\ UNCHANGED <<ret, op, hit>>
  /\ UNCHANGED <<engineVars, waitOn, ens, appVars, svc>>

Create(p, k, o) == CreateOf(p, k, o, Creates(k))

\* "Fetch and return the created" row.
CreateFetch(p, o) ==
  /\ pc[p] = "reread" /\ op[p] = o
  /\ Return(p)
  /\ UNCHANGED <<engineVars, waitOn, ens, appVars, svc, dataVars>>

\* updateProduct / updateSale up to the end of `await db.update(...)`, called
\* with an id of the set I and a data object of the set D.
UpdateOf(p, k, o, I, D) ==
  /\ AtBody(p, o)
  /\ IF Gate(p) # "ok"
       THEN Throw(p, Gate(p)) /\ UNCHANGED <<tables, now>>
       ELSE \E id \in I, data \in D, t \in Readings :
              IF id \in Stored(k) /\ BindsNull(data)
              THEN Throw(p, ErrNotNull) /\ UNCHANGED <<tables, now>>
              ELSE
              /\ tables' = [tables EXCEPT ![k] = UpdateWhereId(@, id, UpdateSet(data, t))]
              /\ now' = t
              /\ arg' = [arg EXCEPT ![p] = id]
              /\ hit' = [hit EXCEPT ![p] = Matched(Table(k), id)]
              /\ pc' = [pc EXCEPT ![p] = "reread"]
              /\ UNCHANGED <<ret, op>>
  /\ UNCHANGED <<engineVars, waitOn, ens, appVars, svc>>

Update(p, k, o) == UpdateOf(p, k, o, Ids(k), Updates(k))

\* `const updated = await getProductById(id); if (!updated) throw ...`
UpdateFetch(p, k, o) ==
  /\ pc[p] = "reread" /\ op[p] = o
  /\ IF EnsureCheck # "ok" THEN Throw(p, EnsureCheck)
     ELSE IF getDB = 0 THEN Throw(p, ErrNotInitialized)
     ELSE IF SelectById(Table(k), arg[p], FALSE) = "" THEN Throw(p, ErrNotFoundAfterUpdate)
     ELSE Return(p)
  /\ UNCHANGED <<engineVars, waitOn, ens, appVars, svc, dataVars>>

\* deleteProduct / deleteSale: the soft delete, called with an id of the set I.
SoftDeleteOf(p, k, o, I) ==
  /\ AtBody(p, o)
  /\ IF Gate(p) # "ok"
       THEN Throw(p, Gate(p)) /\ UNCHANGED <<tables, now>>
       ELSE \E id \in I, t1 \in Readings :
              \E t2 \in t1..MaxNow :
                /\ tables' = [tables EXCEPT ![k] =
                                UpdateWhereId(@, id, SoftDeleteSet(t1, t2))]
                /\ now' = t2
                /\ Settle(p, "ok")
                /\ arg' = [arg EXCEPT ![p] = id]
                /\ hit' = [hit EXCEPT ![p] = Matched(Table(k), id)]
  /\ UNCHANGED <<engineVars, waitOn, ens, appVars, svc>>

SoftDelete(p, k, o) == SoftDeleteOf(p, k, o, Ids(k))

\* hardDeleteProduct / hardDeleteSale, called with an id of the set I.
HardDeleteOf(p, k, o, I) ==
  /\ AtBody(p, o)
  /\ IF Gate(p) # "ok"
       THEN Throw(p, Gate(p)) /\ UNCHANGED <<tables, now>>
       ELSE \E id \in I :
              /\ tables' = [tables EXCEPT ![k] = DeleteWhereId(@, id)]
              /\ Return(p)
              /\ UNCHANGED now
  /\ UNCHANGED <<engineVars, waitOn, ens, appVars, svc>>

HardDelete(p, k, o) == HardDeleteOf(p, k, o, Ids(k))

\* markProductAsSynced / markSaleAsSynced, called with an id of the set I.
MarkAsSyncedOf(p, k, o, I) ==
  /\ AtBody(p, o)
  /\ IF Gate(p) # "ok"
       THEN Throw(p, Gate(p)) /\ UNCHANGED <<tables, now>>
       ELSE \E id \in I :
              /\ tables' = [tables EXCEPT ![k] = UpdateWhereId(@, id, MarkSyncedSet)]
              /\ Settle(p, "ok")
              /\ arg' = [arg EXCEPT ![p] = id]
              /\ hit' = [hit EXCEPT ![p] = {}]
              /\ UNCHANGED now
  /\ UNCHANGED <<engineVars, waitOn, ens, appVars, svc>>

MarkAsSynced(p, k, o) == MarkAsSyncedOf(p, k, o, Ids(k))

\* The read functions: one SELECT after the gate, whose rows are the result.
RepoRead(p) ==
  /\ pc[p] = "ensured" /\ op[p] \in ReadOps
  /\ IF Gate(p) # "ok" THEN Throw(p, Gate(p)) ELSE Return(p)
  /\ UNCHANGED <<engineVars, waitOn, ens, appVars, svc, dataVars>>

createProduct(p) == Create(p, "products", "createProduct")
createProductFetch(p) == CreateFetch(p, "createProduct")
updateProduct(p) == Update(p, "products", "updateProduct")
updateProductFetch(p) == UpdateFetch(p, "products", "updateProduct")
deleteProduct(p) == SoftDelete(p, "products", "deleteProduct")
hardDeleteProduct(p) == HardDelete(p, "products", "hardDeleteProduct")
markProductAsSynced(p) == MarkAsSynced(p, "products", "markProductAsSynced")

createSale(p) == Create(p, "sales", "createSale")
createSaleFetch(p) == CreateFetch(p, "createSale")
updateSale(p) == Update(p, "sales", "updateSale")
updateSaleFetch(p) == UpdateFetch(p, "sales", "updateSale")
deleteSale(p) == SoftDelete(p, "sales", "deleteSale")
hardDeleteSale(p) == HardDelete(p, "sales", "hardDeleteSale")
markSaleAsSynced(p) == MarkAsSynced(p, "sales", "markSaleAsSynced")

\* What the read functions return in the current state (rows by their ids).
getAllProducts == SelectActive(tables.products)
getAllSales == SelectActive(tables.sales)
getProductById(id, includeDeleted) == SelectById(tables.products, id, includeDeleted)
getSaleById(id, includeDeleted) == SelectById(tables.sales, id, includeDeleted)
getUnsyncedProducts == SelectPending(tables.products)
getUnsyncedSales == SelectPending(tables.sales)
getSalesByProductId(productId) == SelectByProductId(tables.sales, productId)
getAllSalesWithProducts == SelectSalesWithProducts(tables.sales, tables.products)

RepoStep(p) ==
  \/ createProduct(p) \/ createProductFetch(p)
  \/ updateProduct(p) \/ updateProductFetch(p)
  \/ deleteProduct(p) \/ hardDeleteProduct(p) \/ markProductAsSynced(p)
  \/ createSale(p) \/ createSaleFetch(p)
  \/ updateSale(p) \/ updateSaleFetch(p)
  \/ deleteSale(p) \/ hardDeleteSale(p) \/ markSaleAsSynced(p)
  \/ RepoRead(p)

\* ------------------------------------------------------- App.tsx
\* A plausible slip: no loading screen while the database initializes.
ScreenNoLoading == IF initError # "" THEN "error" ELSE "nav"

\* What App renders: the loading screen, the error screen or the navigator
\* with the Products and Sales screens.
Screen ==
  IF ~isDBReady /\ initError = "" THEN "loading"
  ELSE IF initError # "" THEN "error"
  ELSE "nav"

\* The effect of App, which runs once on mount: initialize() up to
\* `await initializeDatabase()`.
AppMount ==
  /\ op[AppProc] = "none"
  /\ InitializeDatabase(AppProc)

\* initialize() resumes: setIsDBReady(true), or the catch block's
\* setInitError(error.message).
AppInitSettled ==
  /\ pc[AppProc] = "awaitInit"
  /\ Settled(waitOn[AppProc])
  /\ IF initTask[waitOn[AppProc]] = "fulfilled"
       THEN /\ isDBReady' = TRUE
            /\ ret' = [ret EXCEPT ![AppProc] = "ok"]
            /\ UNCHANGED initError
       ELSE /\ initError' = ErrInitFailed
            /\ ret' = [ret EXCEPT ![AppProc] = ErrInitFailed]
            /\ UNCHANGED isDBReady
  /\ pc' = [pc EXCEPT ![AppProc] = "returned"]
  /\ UNCHANGED <<engineVars, op, waitOn, ens, arg, hit, svc, dataVars,
                 hookState, focusEffect>>

\* The repository functions the screens reach through hooks and services.
UIOps == RepoOps \ {"hardDeleteProduct", "hardDeleteSale",
                    "markProductAsSynced", "markSaleAsSynced"}

\* A mounted screen's hook calls a service, which calls the repository.
UICall(p, o) ==
  /\ Screen = "nav"
  /\ RepoCall(p, o)

\* ------------------------------------------------------- services
ErrNameRequired == "Product name is required"
ErrNameEmpty == "Product name cannot be empty"
ErrPrice == "Product price must be greater than 0"
ErrQuantity == "Quantity must be greater than 0"
ErrProductNotFound == "Product not found"
ErrSaleNotFound == "Sale not found"
ErrCreateProduct == "Failed to create product. Please try again."
ErrUpdateProduct == "Failed to update product. Please try again."
ErrDeleteProduct == "Failed to delete product. Please try again."
ErrCreateSale == "Failed to create sale. Please try again."
ErrUpdateSale == "Failed to update sale. Please try again."
ErrDeleteSale == "Failed to delete sale. Please try again."

\* The arguments the callers of the services pass.
SvcNames == {"", " ", " a"}
SvcPrices == {0, 1, 2, NaN}
SvcQuantities == {0, 1, 2, NaN}
SvcProductIds == {"p1"}
SvcIds(k) == IF k = "products" THEN SvcProductIds ELSE SaleIds

\* String.prototype.trim on those names.
Trim(name) == IF name = " " THEN "" ELSE IF name = " a" THEN "a" ELSE name

\* updates: { name?: string; price?: number }
SvcProductUpdates ==
  { Pick(full, cols) : full \in [name : SvcNames, price : SvcPrices],
                       cols \in SUBSET {"name", "price"} }

\* updates: { product_id?: string; quantity?: number }
SvcSaleUpdates ==
  { Pick(full, cols) : full \in [product_id : SvcProductIds, quantity : SvcQuantities],
                       cols \in SUBSET {"product_id", "quantity"} }

\* A screen's hook may call a service function: the navigator is up and the
\* caller is not inside a call.
SvcFree(p) == Screen = "nav" /\ Free(p) /\ svc[p].fn = "none"

\* The service function throws e.
SvcThrow(p, e) ==
  /\ ret' = [ret EXCEPT ![p] = e]
  /\ pc' = [pc EXCEPT ![p] = "returned"]
  /\ op' = [op EXCEPT ![p] = "none"]
  /\ svc' = [svc EXCEPT ![p] = NoService]

\* The service function goes on to call repository function o, which runs up
\* to the end of its ensureDBReady().
SvcInvoke(p, o) ==
  /\ op' = [op EXCEPT ![p] = o]
  /\ arg' = [arg EXCEPT ![p] = ""]
  /\ hit' = [hit EXCEPT ![p] = {}]
  /\ EnsureDBReadyEnter(p)
  /\ ret' = [ret EXCEPT ![p] = "none"]

\* A validation of the service function failed with error e: it throws
\* before its try block.
SvcReject(p, e) ==
  /\ SvcThrow(p, e)
  /\ UNCHANGED <<waitOn, ens, arg, hit>>

\* A new call passed the validation and calls repository function o.
SvcStart(p, o, locals) ==
  /\ Enter(p, o)
  /\ EnsureDBReadyEnter(p)
  /\ ret' = [ret EXCEPT ![p] = "none"]
  /\ svc' = [svc EXCEPT ![p] = locals]

\* products.service createProduct(name, price) up to productsRepo.createProduct
SvcCreateProduct(p) ==
  /\ SvcFree(p)
  /\ \E name \in SvcNames, price \in SvcPrices :
       IF name = "" \/ Trim(name) = "" THEN SvcReject(p, ErrNameRequired)
       ELSE IF JsLeq(price, 0) THEN SvcReject(p, ErrPrice)
       ELSE /\ RowCount + Cardinality(Creating) < MaxRows
            /\ SvcStart(p, "createProduct",
                        [fn |-> "createProduct",
                         data |-> [name |-> Trim(name), price |-> price]])
  /\ UNCHANGED <<engineVars, appVars, dataVars>>

\* products.service updateProduct(id, updates) up to productsRepo.updateProduct
SvcUpdateProduct(p) ==
  /\ SvcFree(p)
  /\ \E id \in SvcProductIds, updates \in SvcProductUpdates :
       IF "name" \in DOMAIN updates /\ Trim(updates.name) = ""
         THEN SvcReject(p, ErrNameEmpty)
       ELSE IF "price" \in DOMAIN updates /\ JsLeq(updates.price, 0)
         THEN SvcReject(p, ErrPrice)
       ELSE SvcStart(p, "updateProduct",
                     [fn |-> "updateProduct", id |-> id,
                      data |-> [c \in DOMAIN updates |->
                                  IF c = "name" THEN Trim(updates[c]) ELSE updates[c]]])
  /\ UNCHANGED <<engineVars, appVars, dataVars>>

\* products.service deleteProduct(id) / sales.service deleteSale(id) up to
\* the repository's soft delete
SvcDelete(p, k, o) ==
  /\ SvcFree(p)
  /\ \E id \in SvcIds(k) : SvcStart(p, o, [fn |-> o, id |-> id])
  /\ UNCHANGED <<engineVars, appVars, dataVars>>

\* sales.service createSale(productId, quantity) up to
\* productsRepo.getProductById(productId)
SvcCreateSale(p) ==
  /\ SvcFree(p)
  /\ \E productId \in SvcProductIds, quantity \in SvcQuantities :
       IF JsLeq(quantity, 0) THEN SvcReject(p, ErrQuantity)
       ELSE /\ RowCount + Cardinality(Creating) < MaxRows
            /\ SvcStart(p, "getProductById",
                        [fn |-> "createSale", productId |-> productId,
                         quantity |-> quantity])
  /\ UNCHANGED <<engineVars, appVars, dataVars>>

\* sales.service updateSale(id, updates) up to salesRepo.getSaleById(id)
SvcUpdateSale(p) ==
  /\ SvcFree(p)
  /\ \E id \in SaleIds, updates \in SvcSaleUpdates :
       IF "quantity" \in DOMAIN updates /\ JsLeq(updates.quantity, 0)
         THEN SvcReject(p, ErrQuantity)
       ELSE SvcStart(p, "getSaleById",
                     [fn |-> "updateSale", id |-> id, updates |-> updates])
  /\ UNCHANGED <<engineVars, appVars, dataVars>>

\* `const product = await productsRepo.getProductById(productId)` of
\* createSale returns, and the function runs up to salesRepo.createSale.
SvcCreateSaleProduct(p) ==
  /\ AtBody(p, "getProductById") /\ svc[p].fn = "createSale"
  /\ IF Gate(p) # "ok"
       THEN Throw(p, Gate(p)) /\ UNCHANGED <<waitOn, ens, svc>>
       ELSE LET product == getProductById(svc[p].productId, FALSE) IN
            IF product = ""
              THEN SvcThrow(p, ErrProductNotFound) /\ UNCHANGED <<waitOn, ens, arg, hit>>
              ELSE /\ SvcInvoke(p, "createSale")
                   /\ svc' = [svc EXCEPT ![p] =
                        [fn |-> "createSale",
                         data |-> [product_id |-> svc[p].productId,
                                   quantity |-> svc[p].quantity,
                                   total |-> JsTimes(svc[p].quantity,
                                                     tables.products[product].price)]]]
  /\ UNCHANGED <<engineVars, appVars, dataVars>>

\* `const currentSale = await salesRepo.getSaleById(id)` of updateSale
\* returns, and the function runs up to productsRepo.getProductById.
SvcUpdateSaleCurrent(p) ==
  /\ AtBody(p, "getSaleById") /\ svc[p].fn = "updateSale"
  /\ IF Gate(p) # "ok"
       THEN Throw(p, Gate(p)) /\ UNCHANGED <<waitOn, ens, svc>>
       ELSE LET currentSale == getSaleById(svc[p].id, FALSE) IN
            IF currentSale = ""
              THEN SvcThrow(p, ErrSaleNotFound) /\ UNCHANGED <<waitOn, ens, arg, hit>>
              ELSE /\ SvcInvoke(p, "getProductById")
                   /\ svc' = [svc EXCEPT ![p] =
                        [fn |-> "updateSale", id |-> svc[p].id,
                         updates |-> svc[p].updates,
                         currentSale |-> Pick(tables.sales[currentSale],
                                              {"product_id", "quantity"}),
                         productId |->
                           IF "product_id" \in DOMAIN svc[p].updates
                             THEN svc[p].updates.product_id
                             ELSE tables.sales[currentSale].product_id]]
  /\ UNCHANGED <<engineVars, appVars, dataVars>>

\* The updateData of updateSale, from its updates, the sale it read and the
\* price of the product it read.
SaleUpdateData(updates, currentSale, price) ==
  LET quantity == IF "quantity" \in DOMAIN updates THEN updates.quantity
                  ELSE currentSale.quantity
      cols == DOMAIN updates \cup (IF DOMAIN updates # {} THEN {"total"} ELSE {})
  IN [c \in cols |-> IF c = "total" THEN JsTimes(quantity, price) ELSE updates[c]]

\* `const product = await productsRepo.getProductById(productId)` of
\* updateSale returns, and the function runs up to salesRepo.updateSale.
SvcUpdateSaleProduct(p) ==
  /\ AtBody(p, "getProductById") /\ svc[p].fn = "updateSale"
  /\ IF Gate(p) # "ok"
       THEN Throw(p, Gate(p)) /\ UNCHANGED <<waitOn, ens, svc>>
       ELSE LET product == getProductById(svc[p].productId, FALSE) IN
            IF product = ""
              THEN SvcThrow(p, ErrProductNotFound) /\ UNCHANGED <<waitOn, ens, arg, hit>>
              ELSE /\ SvcInvoke(p, "updateSale")
                   /\ svc' = [svc EXCEPT ![p] =
                        [fn |-> "updateSale", id |-> svc[p].id,
                         currentSale |-> svc[p].currentSale,
                         data |-> SaleUpdateData(svc[p].updates, svc[p].currentSale,
                                                 tables.products[product].price)]]
  /\ UNCHANGED <<engineVars, appVars, dataVars>>

\* The repository write of a service call, with the arguments the service
\* passes.
SvcInsert(p, k, o) ==
  /\ svc[p].fn = o
  /\ CreateOf(p, k, o, {svc[p].data})

SvcUpdate(p, k, o) ==
  /\ svc[p].fn = o
  /\ UpdateOf(p, k, o, {svc[p].id}, {svc[p].data})

SvcSoftDelete(p, k, o) ==
  /\ svc[p].fn = o
  /\ SoftDeleteOf(p, k, o, {svc[p].id})

\* The errors a service function rethrows as they are.
SvcRethrown(fn) ==
  IF fn = "createSale" THEN {ErrProductNotFound}
  ELSE IF fn = "updateSale" THEN {ErrSaleNotFound, ErrProductNotFound}
  ELSE {}

\* "Failed to ... Please try again."
SvcFailed(fn) ==
  IF fn = "createProduct" THEN ErrCreateProduct
  ELSE IF fn = "updateProduct" THEN ErrUpdateProduct
  ELSE IF fn = "deleteProduct" THEN ErrDeleteProduct
  ELSE IF fn = "createSale" THEN ErrCreateSale
  ELSE IF fn = "updateSale" THEN ErrUpdateSale
  ELSE ErrDeleteSale

\* The repository call of a service function has settled: the function
\* returns its result, or its catch block maps the error.
SvcSettle(p) ==
  /\ pc[p] = "returned"
  /\ svc[p].fn \notin {"none", "syncProducts", "syncToLaravel", "loadProducts", "loadSales"}
  /\ ret' = [ret EXCEPT ![p] =
               IF ret[p] = "ok" \/ ret[p] \in SvcRethrown(svc[p].fn) THEN ret[p]
               ELSE SvcFailed(svc[p].fn)]
  /\ svc' = [svc EXCEPT ![p] = NoService]
  /\ arg' = [arg EXCEPT ![p] = ""]
  /\ hit' = [hit EXCEPT ![p] = {}]
  /\ UNCHANGED <<engineVars, op, pc, waitOn, ens, appVars, dataVars>>

\* 'Failed to load product / sale. Please try again.'
ErrLoadProduct == "Failed to load product. Please try again."
ErrLoadSale == "Failed to load sale. Please try again."

\* The error getProductById / getSaleById of the services throw in their try
\* block when the repository returns no record.
SvcNotFound(k) == IF k = "products" THEN ErrProductNotFound ELSE ErrSaleNotFound

\* The catch block of getProductById / getSaleById of the services, given
\* the error e thrown in the try block.
SvcGetByIdCatch(k, e) == IF k = "products" THEN ErrLoadProduct ELSE ErrLoadSale

\* The services' getProductById(id) / getSaleById(id) up to the repository's
\* function of that name.
SvcGetById(p, k, o) ==
  /\ SvcFree(p)
  /\ \E id \in SvcIds(k) : SvcStart(p, o, [fn |-> o, id |-> id])
  /\ UNCHANGED <<engineVars, appVars, dataVars>>

\* The repository's function returns and the service function ends.
SvcGetByIdResume(p, k, o) ==
  /\ AtBody(p, o) /\ svc[p].fn = o
  /\ LET e == IF Gate(p) # "ok" THEN Gate(p)
              ELSE IF SelectById(Table(k), svc[p].id, FALSE) = "" THEN SvcNotFound(k)
              ELSE "ok"
     IN IF e = "ok"
          THEN Return(p) /\ svc' = [svc EXCEPT ![p] = NoService]
          ELSE SvcThrow(p, SvcGetByIdCatch(k, e)) /\ UNCHANGED <<arg, hit>>
  /\ UNCHANGED <<engineVars, waitOn, ens, appVars, dataVars>>

SvcCall(p) ==
  \/ SvcGetById(p, "products", "getProductById")
  \/ SvcGetById(p, "sales", "getSaleById")
  \/ SvcCreateProduct(p)
  \/ SvcUpdateProduct(p)
  \/ SvcDelete(p, "products", "deleteProduct")
  \/ SvcCreateSale(p)
  \/ SvcUpdateSale(p)
  \/ SvcDelete(p, "sales", "deleteSale")

SvcStep(p) ==
  \/ SvcGetByIdResume(p, "products", "getProductById")
  \/ SvcGetByIdResume(p, "sales", "getSaleById")
  \/ SvcInsert(p, "products", "createProduct") \/ createProductFetch(p)
  \/ SvcUpdate(p, "products", "updateProduct") \/ updateProductFetch(p)
  \/ SvcSoftDelete(p, "products", "deleteProduct")
  \/ SvcCreateSaleProduct(p)
  \/ SvcInsert(p, "sales", "createSale") \/ createSaleFetch(p)
  \/ SvcUpdateSaleCurrent(p) \/ SvcUpdateSaleProduct(p)
  \/ SvcUpdate(p, "sales", "updateSale") \/ updateSaleFetch(p)
  \/ SvcSoftDelete(p, "sales", "deleteSale")
  \/ SvcSettle(p)

\* ------------------------------------------------------- specifications
EngineNext ==
  \/ \E p \in Procs : InitializeDatabase(p)
  \/ \E a \in Attempts : OpenSettles(a)
  \/ \E a \in Attempts : MigrationsSettle(a)
  \/ \E p \in Procs : InitializeDatabaseReturn(p)
  \/ \E p \in Procs : EnsureDBReadyCall(p)
  \/ \E p \in Procs : EnsureDBReadyResume(p)
  \/ \E p \in Procs : EnsureDBReadyReturn(p)

\* The database client driven by arbitrary callers.
SpecEngine == Init /\ [][EngineNext]_vars

Next ==
  \/ ~isInitialized /\ InitializeDatabase(AppProc)
  \/ \E a \in Attempts : OpenSettles(a)
  \/ \E a \in Attempts : MigrationsSettle(a)
  \/ InitializeDatabaseReturn(AppProc)
  \/ \E p \in Callers : EnsureDBReadyResume(p)
  \/ \E p \in Callers, o \in RepoOps : RepoCall(p, o)
  \/ \E p \in Callers : RepoStep(p)

\* The steps of the repository functions the screens reach.
UIStep(p) ==
  \/ createProduct(p) \/ createProductFetch(p)
  \/ updateProduct(p) \/ updateProductFetch(p)
  \/ deleteProduct(p)
  \/ createSale(p) \/ createSaleFetch(p)
  \/ updateSale(p) \/ updateSaleFetch(p)
  \/ deleteSale(p)
  \/ RepoRead(p)

AppNext ==
  \/ AppMount
  \/ \E a \in Attempts : OpenSettles(a)
  \/ \E a \in Attempts : MigrationsSettle(a)
  \/ AppInitSettled
  \/ \E p \in Callers, o \in UIOps : UICall(p, o)
  \/ \E p \in Callers : UIStep(p)

\* The application: App initializes the database and renders; the screens
\* it renders call the repositories.
SpecApp == Init /\ [][AppNext]_vars

\* syncProducts() as shipped: "Sync not implemented yet", returns 0.
syncProducts(p) ==
  /\ SvcFree(p)
  /\ ret' = [ret EXCEPT ![p] = "ok"]
  /\ pc' = [pc EXCEPT ![p] = "returned"]
  /\ UNCHANGED <<engineVars, op, waitOn, ens, arg, hit, svc, appVars, dataVars>>

\* The updated_at values a server may hold.
ServerTimes == {toISOString(t) : t \in 0..(MaxNow + 1)}

\* One TEXT timestamp is strictly later than another.
TextLess(x, y) == TextLeq(x, y) /\ x # y

\* The copies of product row r a server may answer a conflict with: the
\* same record in a version with a strictly later updated_at.
ServerRecords(r) ==
  {sr \in [name : Names, price : Prices, created_at : {r.created_at},
           updated_at : ServerTimes, deleted_at : {NULL} \cup ServerTimes,
           sync_status : {"synced"}] :
     /\ TextLess(r.updated_at, sr.updated_at)
     /\ sr.deleted_at \in {NULL, sr.updated_at}}

\* The answers of the backend to the products sent: the ids it took, and for
\* some of the others its own copy; the rest are errors.
SyncResponses(tbl, unsynced) ==
  UNION { { [synced |-> synced, conflicts |-> conflicts] :
              conflicts \in { f \in [ids -> UNION {ServerRecords(tbl[i]) : i \in ids}] :
                                \A i \in ids : f[i] \in ServerRecords(tbl[i]) } } :
          synced \in SUBSET unsynced, ids \in SUBSET unsynced }

\* The documented syncProducts(), up to productsRepo.getUnsyncedProducts().
SyncProductsStart(p) ==
  /\ SvcFree(p)
  /\ SvcStart(p, "getUnsyncedProducts", [fn |-> "syncProducts"])
  /\ UNCHANGED <<engineVars, appVars, dataVars>>

\* Steps 1 and 2: the unsynced products are read and sent, and the response
\* is parsed.
SyncProductsResponse(p) ==
  /\ AtBody(p, "getUnsyncedProducts") /\ svc[p].fn = "syncProducts"
  /\ IF Gate(p) # "ok"
       THEN Throw(p, Gate(p)) /\ UNCHANGED svc
       ELSE \E response \in SyncResponses(tables.products, getUnsyncedProducts) :
              /\ DOMAIN response.conflicts \cap response.synced = {}
              /\ svc' = [svc EXCEPT ![p] =
                   [fn |-> "syncProducts", synced |-> response.synced,
                    conflicts |-> response.conflicts, resolved |-> <<>>,
                    id |-> "", data |-> <<>>, at |-> "loop"]]
              /\ Return(p)
  /\ UNCHANGED <<engineVars, waitOn, ens, appVars, dataVars>>

\* The rest of function f without the argument id.
Without(f, id) == [i \in DOMAIN f \ {id} |-> f[i]]

\* Steps 3 and 4: after the response, or after a repository call has
\* returned, the loops go on to the next repository call; an error of a
\* repository call ends the cycle.
SyncProductsResume(p) ==
  /\ pc[p] = "returned" /\ svc[p].fn = "syncProducts" /\ "at" \in DOMAIN svc[p]
  /\ IF ret[p] # "ok"
       THEN /\ svc' = [svc EXCEPT ![p] = NoService]
            /\ UNCHANGED <<op, pc, waitOn, ens, ret, arg, hit>>
     ELSE IF svc[p].at = "update"
       THEN \* await productsRepo.markProductAsSynced(conflict.id)
            /\ SvcInvoke(p, "markProductAsSynced")
            /\ svc' = [svc EXCEPT ![p].at = "mark",
                                  ![p].conflicts = Without(@, svc[p].id),
                                  ![p].resolved = (svc[p].id :> svc[p].data) @@ @]
     ELSE IF svc[p].synced # {}
       THEN \* await productsRepo.markProductAsSynced(id)
            \E id \in svc[p].synced :
              /\ SvcInvoke(p, "markProductAsSynced")
              /\ svc' = [svc EXCEPT ![p].at = "mark", ![p].id = id,
                                    ![p].data = <<>>, ![p].synced = @ \ {id}]
     ELSE IF DOMAIN svc[p].conflicts # {}
       THEN \* await productsRepo.updateProduct(conflict.id, conflict.serverData)
            \E id \in DOMAIN svc[p].conflicts :
              /\ SvcInvoke(p, "updateProduct")
              /\ svc' = [svc EXCEPT ![p].at = "update", ![p].id = id,
                                    ![p].data = svc[p].conflicts[id]]
     ELSE \* return { synced: ..., conflicts: ... }
          /\ svc' = [svc EXCEPT ![p] = NoService]
          /\ UNCHANGED <<op, pc, waitOn, ens, ret, arg, hit>>
  /\ UNCHANGED <<engineVars, appVars, dataVars>>

\* The repository writes of the cycle, with the arguments it passes.
SyncMarkAsSynced(p) ==
  /\ svc[p].fn = "syncProducts"
  /\ MarkAsSyncedOf(p, "products", "markProductAsSynced", {svc[p].id})

SyncUpdateProduct(p) ==
  /\ svc[p].fn = "syncProducts"
  /\ UpdateOf(p, "products", "updateProduct", {svc[p].id}, {svc[p].data})

\* The hook of one screen: it calls the services one call at a time.
Hook == NumCallers + 1

\* The application with a screen whose hook calls the services once App shows
\* the navigator.
ServiceNext ==
  \/ AppMount
  \/ \E a \in Attempts : OpenSettles(a)
  \/ \E a \in Attempts : MigrationsSettle(a)
  \/ AppInitSettled
  \/ SvcCall(Hook)
  \/ SvcStep(Hook)

\* What the services store does not depend on the clock: the application is
\* started at the last instant of the horizon.
InitService == Started(MaxNow)

SpecService == InitService /\ [][ServiceNext]_vars

\* ------------------------------------------------------- hooks and screens
\* 'Failed to load products / sales. Please try again.'
ErrLoadProducts == "Failed to load products. Please try again."
ErrLoadSales == "Failed to load sales. Please try again."

\* loadProducts of useProducts / loadSales of useSales, and the repository
\* read each reaches through its service.
LoadFn(k) == IF k = "products" THEN "loadProducts" ELSE "loadSales"
LoadOp(k) == IF k = "products" THEN "getAllProducts" ELSE "getAllSalesWithProducts"

\* What the service's getAllProducts / getAllSalesWithProducts resolves to.
LoadData(k) == IF k = "products" THEN getAllProducts ELSE getAllSalesWithProducts

\* The catch block of the service's getAllProducts / getAllSalesWithProducts.
LoadCatch(k) == IF k = "products" THEN ErrLoadProducts ELSE ErrLoadSales

\* The value loadProducts / loadSales resolves to, { cancelled }, as a text.
LoadResult(cancelled) == IF cancelled THEN "cancelled" ELSE "ok"

\* The screen of hook k comes into focus: its focus effect runs, which sets
\* its own `cancelled` to false and calls loadProducts() / loadSales(), which
\* runs up to the await of its service call.
FocusEffect(p, k) ==
  /\ SvcFree(p)
  /\ ~focusEffect[k].focused
  /\ focusEffect' = [focusEffect EXCEPT ![k] = [focused |-> TRUE, cancelled |-> FALSE]]
  /\ hookState' = [hookState EXCEPT ![k].loading = TRUE, ![k].error = ""]
  /\ SvcStart(p, LoadOp(k), [fn |-> LoadFn(k), cancelled |-> FALSE])
  /\ UNCHANGED <<engineVars, isDBReady, initError, dataVars>>

\* The screen of hook k loses focus: the cleanup returned by its focus effect
\* sets the effect's `cancelled` to true.
FocusCleanup(k) ==
  /\ focusEffect[k].focused
  /\ focusEffect' = [focusEffect EXCEPT ![k] = [focused |-> FALSE, cancelled |-> TRUE]]
  /\ UNCHANGED <<engineVars, procVars, isDBReady, initError, hookState, dataVars>>

\* The service call of loadProducts / loadSales settles and the function runs
\* to its end: setProducts / setSales or setError, then setLoading(false),
\* each under `if (!cancelled)` of the function's own `cancelled`.
LoadResume(p, k) ==
  /\ AtBody(p, LoadOp(k)) /\ svc[p].fn = LoadFn(k)
  /\ hookState' =
       IF svc[p].cancelled THEN hookState
       ELSE IF Gate(p) = "ok"
         THEN [hookState EXCEPT ![k].data = LoadData(k), ![k].loading = FALSE]
         ELSE [hookState EXCEPT ![k].error = LoadCatch(k), ![k].loading = FALSE]
  /\ Settle(p, LoadResult(svc[p].cancelled))
  /\ svc' = [svc EXCEPT ![p] = NoService]
  /\ UNCHANGED <<engineVars, waitOn, ens, arg, hit, isDBReady, initError,
                 focusEffect, dataVars>>

\* The application with the Products and Sales screens gaining and losing
\* focus, and products and sales being added.
HooksNext ==
  \/ AppMount
  \/ \E a \in Attempts : OpenSettles(a)
  \/ \E a \in Attempts : MigrationsSettle(a)
  \/ AppInitSettled
  \/ \E k \in {"products", "sales"} : FocusEffect(Hook, k)
  \/ \E k \in {"products", "sales"} : FocusCleanup(k)
  \/ \E k \in {"products", "sales"} : LoadResume(Hook, k)
  \/ SvcCreateProduct(Hook)
  \/ SvcInsert(Hook, "products", "createProduct")
  \/ createProductFetch(Hook)
  \/ SvcCreateSale(Hook)
  \/ SvcCreateSaleProduct(Hook)
  \/ SvcInsert(Hook, "sales", "createSale")
  \/ createSaleFetch(Hook)
  \/ SvcSettle(Hook)

SpecHooks == InitService /\ [][HooksNext]_vars

\* The calls that meet on one sale and its product: a sale is created or
\* updated while the product is deleted or the sale is updated again.
RaceCall(p) ==
  \/ SvcCreateProduct(p)
  \/ SvcDelete(p, "products", "deleteProduct")
  \/ SvcCreateSale(p)
  \/ SvcUpdateSale(p)

RaceStep(p) ==
  \/ SvcInsert(p, "products", "createProduct") \/ createProductFetch(p)
  \/ SvcSoftDelete(p, "products", "deleteProduct")
  \/ SvcCreateSaleProduct(p)
  \/ SvcInsert(p, "sales", "createSale") \/ createSaleFetch(p)
  \/ SvcUpdateSaleCurrent(p) \/ SvcUpdateSaleProduct(p)
  \/ SvcUpdate(p, "sales", "updateSale") \/ updateSaleFetch(p)
  \/ SvcSettle(p)

\* The application with several hooks whose calls overlap.
RaceNext ==
  \/ AppMount
  \/ \E a \in Attempts : OpenSettles(a)
  \/ \E a \in Attempts : MigrationsSettle(a)
  \/ AppInitSettled
  \/ \E p \in Clients : RaceCall(p)
  \/ \E p \in Clients : RaceStep(p)

SpecRace == InitService /\ [][RaceNext]_vars

\* The application with one caller that creates, changes and deletes
\* products and runs sync cycles.
SyncNext ==
  \/ AppMount
  \/ \E a \in Attempts : OpenSettles(a)
  \/ \E a \in Attempts : MigrationsSettle(a)
  \/ AppInitSettled
  \/ SvcCreateProduct(Hook)
  \/ SvcInsert(Hook, "products", "createProduct")
  \/ createProductFetch(Hook)
  \/ SvcDelete(Hook, "products", "deleteProduct")
  \/ SvcSoftDelete(Hook, "products", "deleteProduct")
  \/ SvcSettle(Hook)
  \/ syncProducts(Hook)
  \/ SyncProductsStart(Hook)
  \/ SyncProductsResponse(Hook)
  \/ SyncProductsResume(Hook)
  \/ SyncMarkAsSynced(Hook)
  \/ SyncUpdateProduct(Hook)
  \/ updateProductFetch(Hook)

SpecSync == Init /\ [][SyncNext]_vars

\* ------------------------------------------------------- syncToLaravel
\* fetch() rejects: the request did not reach the backend or no response came.
ErrTransport == "TypeError: Network request failed"

\* A background task that runs sync cycles next to the screen's hook.
Background == NumCallers + 2

\* The documented syncToLaravel(), up to getUnsyncedProducts().
SyncToLaravelStart(p) ==
  /\ SvcFree(p)
  /\ SvcStart(p, "getUnsyncedProducts", [fn |-> "syncToLaravel", at |-> "products"])
  /\ UNCHANGED <<engineVars, appVars, dataVars>>

\* const pendingProducts = await getUnsyncedProducts(), then up to
\* getUnsyncedSales().
SyncToLaravelProducts(p) ==
  /\ AtBody(p, "getUnsyncedProducts") /\ svc[p].fn = "syncToLaravel"
  /\ IF Gate(p) # "ok"
       THEN Throw(p, Gate(p)) /\ svc' = [svc EXCEPT ![p] = NoService]
            /\ UNCHANGED <<waitOn, ens>>
       ELSE /\ SvcInvoke(p, "getUnsyncedSales")
            /\ svc' = [svc EXCEPT ![p] =
                 [fn |-> "syncToLaravel", at |-> "sales",
                  pendingProducts |-> [i \in getUnsyncedProducts |-> tables.products[i]]]]
  /\ UNCHANGED <<engineVars, appVars, dataVars>>

\* const pendingSales = await getUnsyncedSales(), the filter for deleted
\* items, then up to `await fetch(...)` with both lists in the body.
SyncToLaravelFetch(p) ==
  /\ AtBody(p, "getUnsyncedSales") /\ svc[p].fn = "syncToLaravel"
  /\ IF Gate(p) # "ok"
       THEN Throw(p, Gate(p)) /\ svc' = [svc EXCEPT ![p] = NoService]
       ELSE /\ op' = [op EXCEPT ![p] = "fetch"]
            /\ pc' = [pc EXCEPT ![p] = "awaitFetch"]
            /\ svc' = [svc EXCEPT ![p] =
                 [fn |-> "syncToLaravel", at |-> "fetch",
                  pendingProducts |-> svc[p].pendingProducts,
                  deleted |-> {i \in DOMAIN svc[p].pendingProducts :
                                 svc[p].pendingProducts[i].deleted_at # NULL},
                  response |-> FALSE, accepted |-> {},
                  marked |-> {}, removed |-> {}, id |-> ""]]
            /\ UNCHANGED <<ret, arg, hit>>
  /\ UNCHANGED <<engineVars, waitOn, ens, appVars, dataVars>>

\* A plausible slip: the request wrapped in a try whose catch only logs.
FetchRejectedLogged(p) ==
  /\ Settle(p, "ok")
  /\ svc' = [svc EXCEPT ![p].at = "loop"]

\* fetch() rejects, syncToLaravel() has no try around it: the cycle ends
\* with the error.
FetchRejected(p) ==
  /\ Settle(p, ErrTransport)
  /\ svc' = [svc EXCEPT ![p] = NoService]

\* fetch() resolves with a response, whatever its status and body: the
\* backend has taken the records `accepted`, and the cycle goes on without
\* reading the response (the frame keeps that a response came and what the
\* backend took).
FetchResolved(p, accepted) ==
  /\ Settle(p, "ok")
  /\ svc' = [svc EXCEPT ![p].at = "loop", ![p].response = TRUE,
                        ![p].accepted = accepted]

\* `await fetch(...)` settles.
SyncToLaravelFetchSettles(p) ==
  /\ pc[p] = "awaitFetch" /\ svc[p].fn = "syncToLaravel"
  /\ \/ FetchRejected(p)
     \/ \E accepted \in SUBSET DOMAIN svc[p].pendingProducts : FetchResolved(p, accepted)
  /\ UNCHANGED <<engineVars, waitOn, ens, arg, hit, appVars, dataVars>>

\* The two loops: after the response, or after a repository call has
\* returned, the cycle goes on to the next markProductAsSynced(product.id),
\* then to the next hardDeleteProduct(item.id); an error of a repository
\* call ends the cycle.
SyncToLaravelResume(p) ==
  /\ pc[p] = "returned" /\ svc[p].fn = "syncToLaravel" /\ svc[p].at = "loop"
  /\ IF ret[p] # "ok"
       THEN /\ svc' = [svc EXCEPT ![p] = NoService]
            /\ UNCHANGED <<op, pc, waitOn, ens, ret, arg, hit>>
     ELSE IF DOMAIN svc[p].pendingProducts \ svc[p].marked # {}
       THEN \E id \in DOMAIN svc[p].pendingProducts \ svc[p].marked :
              /\ SvcInvoke(p, "markProductAsSynced")
              /\ svc' = [svc EXCEPT ![p].id = id, ![p].marked = @ \cup {id}]
     ELSE IF svc[p].deleted \ svc[p].removed # {}
       THEN \E id \in svc[p].deleted \ svc[p].removed :
              /\ SvcInvoke(p, "hardDeleteProduct")
              /\ svc' = [svc EXCEPT ![p].id = id, ![p].removed = @ \cup {id}]
     ELSE /\ svc' = [svc EXCEPT ![p] = NoService]
          /\ UNCHANGED <<op, pc, waitOn, ens, ret, arg, hit>>
  /\ UNCHANGED <<engineVars, appVars, dataVars>>

\* The repository writes of the cycle, with the arguments it passes.
SyncToLaravelMark(p) ==
  /\ svc[p].fn = "syncToLaravel"
  /\ MarkAsSyncedOf(p, "products", "markProductAsSynced", {svc[p].id})

SyncToLaravelHardDelete(p) ==
  /\ svc[p].fn = "syncToLaravel"
  /\ HardDeleteOf(p, "products", "hardDeleteProduct", {svc[p].id})

SyncToLaravelStep(p) ==
  \/ SyncToLaravelStart(p)
  \/ SyncToLaravelProducts(p)
  \/ SyncToLaravelFetch(p)
  \/ SyncToLaravelFetchSettles(p)
  \/ SyncToLaravelResume(p)
  \/ SyncToLaravelMark(p)
  \/ SyncToLaravelHardDelete(p)

\* The application with a screen that creates, changes and deletes products
\* while the screen and a background task run sync cycles.
LaravelNext ==
  \/ AppMount
  \/ \E a \in Attempts : OpenSettles(a)
  \/ \E a \in Attempts : MigrationsSettle(a)
  \/ AppInitSettled
  \/ SvcCreateProduct(Hook)
  \/ SvcInsert(Hook, "products", "createProduct")
  \/ createProductFetch(Hook)
  \/ SvcUpdateProduct(Hook)
  \/ SvcUpdate(Hook, "products", "updateProduct")
  \/ updateProductFetch(Hook)
  \/ SvcDelete(Hook, "products", "deleteProduct")
  \/ SvcSoftDelete(Hook, "products", "deleteProduct")
  \/ SvcSettle(Hook)
  \/ \E p \in {Hook, Background} : SyncToLaravelStep(p)

SpecLaravel == InitService /\ [][LaravelNext]_vars

\* The application is closed while nothing is in flight and launched again:
\* the module state of the client and the state of App start afresh, app.db
\* stays as it is.
Restart ==
  /\ openCalls < MaxAttempts
  /\ \A a \in Attempts : initTask[a] \notin {"opening", "migrating"}
  /\ \A p \in AllProcs : Free(p) /\ svc[p].fn = "none"
  /\ sqliteDb' = 0
  /\ drizzleDb' = 0
  /\ isInitialized' = FALSE
  /\ initializationPromise' = 0
  /\ op' = [p \in AllProcs |-> "none"]
  /\ pc' = [p \in AllProcs |-> "idle"]
  /\ waitOn' = [p \in AllProcs |-> 0]
  /\ ens' = [p \in AllProcs |-> "none"]
  /\ ret' = [p \in AllProcs |-> "none"]
  /\ arg' = [p \in AllProcs |-> ""]
  /\ hit' = [p \in AllProcs |-> {}]
  /\ isDBReady' = FALSE
  /\ initError' = ""
  /\ hookState' = [products |-> HookMounted, sales |-> HookMounted]
  /\ focusEffect' = [products |-> EffectNone, sales |-> EffectNone]
  /\ UNCHANGED <<initTask, openCalls, migrationCalls, schema, svc, dataVars>>

\* The application over several launches, with a screen that adds products.
MigrationsNext ==
  \/ AppMount
  \/ \E a \in Attempts : OpenSettles(a)
  \/ \E a \in Attempts : MigrationsSettle(a)
  \/ AppInitSettled
  \/ Restart
  \/ SvcCreateProduct(Hook)
  \/ SvcInsert(Hook, "products", "createProduct")
  \/ createProductFetch(Hook)
  \/ SvcSettle(Hook)

SpecMigrations == Init /\ [][MigrationsNext]_vars

\* The client and the repositories driven by arbitrary callers.
Spec == Init /\ [][Next]_vars

\* ------------------------------------------------------- claims C1, C2
InFlight(a) == initTask[a] \in {"opening", "migrating"}
Rejected == {a \in Attempts : initTask[a] = "rejected"}
Outcome(a) == IF initTask[a] = "fulfilled" THEN "ok" ELSE ErrInitFailed

C1_State ==
  /\ Cardinality({a \in Attempts : InFlight(a)}) <= 1
  /\ openCalls <= 1 + Cardinality(Rejected)
  /\ migrationCalls <= 1 + Cardinality(Rejected)
  /\ isInitialized => \A a \in Attempts : ~InFlight(a)
  /\ \A p \in Procs :
       op[p] = "initializeDatabase" /\ pc[p] = "returned" /\ waitOn[p] # 0
         => Settled(waitOn[p]) /\ ret[p] = Outcome(waitOn[p])

C1_Step ==
  \A p \in Procs, a \in Attempts :
    InFlight(a) /\ Free(p) /\ pc'[p] = "awaitInit"
      => /\ openCalls' = openCalls
         /\ migrationCalls' = migrationCalls
         /\ waitOn'[p] = a

PastGate(p) == op[p] \in RepoOps /\ pc[p] = "ensured"

C3_State ==
  /\ \A p \in Callers :
       /\ PastGate(p) /\ ens[p] = "ok" => isInitialized /\ getDB # 0
       /\ pc[p] = "reread" => isInitialized /\ getDB # 0
  /\ RowCount > 0 => isInitialized

C3_Step ==
  /\ \A p \in Callers :
       /\ Free(p) /\ op'[p] \in RepoOps => pc'[p] \in {"awaitEnsure", "ensured"}
       /\ PastGate(p) /\ ens[p] # "ok" /\ pc'[p] # pc[p]
            => pc'[p] = "returned" /\ ret'[p] = ens[p] /\ tables' = tables
  /\ tables' # tables
       => /\ isInitialized
          /\ \E p \in Callers : PastGate(p) /\ ens[p] = "ok" /\ pc'[p] # pc[p]

\* C3: every repository function first awaits ensureDBReady(); it goes on to
\* storage only with the engine ready, and when ensureDBReady() fails the
\* function fails with that error and the tables are as they were.
C3_RepositoryGated == [](C3_State) /\ [][C3_Step]_vars

\* C3 witness: a repository call has failed at the gate on a failed
\* initialization, and another is past the gate with the engine ready.
C3_Witness ==
  /\ Rejected # {}
  /\ \E p \in Callers : PastGate(p) /\ ens[p] = "ok" /\ ret[p] = "none"
  /\ RowCount > 0

\* C3, the failing case: a repository call has just failed at the gate.
C3_WitnessFailed ==
  \E p \in Callers :
    pc[p] = "returned" /\ ret[p] \in {ErrInitFailed, ErrNotReady} /\ ens[p] = ret[p]

\* ------------------------------------------------------- claims C5 to C10
Kinds == {"products", "sales"}
KindOf(o) == IF o \in ProductOps THEN "products" ELSE "sales"

\* The steps of process p that execute a statement.
InsertStep(p) == op[p] \in CreateOps /\ pc[p] = "ensured" /\ pc'[p] = "reread"
UpdateStep(p) ==
  op[p] \in {"updateProduct", "updateSale"} /\ pc[p] = "ensured" /\ pc'[p] = "reread"
SoftDeleteStep(p) ==
  /\ op[p] \in {"deleteProduct", "deleteSale"}
  /\ pc[p] = "ensured" /\ pc'[p] = "returned" /\ ret'[p] = "ok"
MarkStep(p) ==
  /\ op[p] \in {"markProductAsSynced", "markSaleAsSynced"}
  /\ pc[p] = "ensured" /\ pc'[p] = "returned" /\ ret'[p] = "ok"

\* The instant a TEXT timestamp denotes (UTC).
Instant(x) == x[1] * TicksPerDay + x[3]

\* A process that has soft-deleted a stored record and returned.
SoftDeleted(p) == pc[p] = "returned" /\ ret[p] = "ok" /\ arg[p] # "" /\ hit[p] # {}

C5_Step ==
  \A p \in Callers :
    InsertStep(p) =>
      LET k == KindOf(op[p])
          id == arg'[p]
      IN /\ id \notin DOMAIN tables[k]
         /\ id \in DOMAIN tables'[k]
         /\ tables'[k][id].sync_status = "pending"
         /\ tables'[k][id].deleted_at = NULL
         /\ \A i \in DOMAIN tables[k] : i \in DOMAIN tables'[k] /\ tables'[k][i] = tables[k][i]

\* C5: the INSERT of createProduct / createSale stores the record under an id
\* no stored record has, with sync_status 'pending' and deleted_at NULL, and
\* leaves the records already stored as they were.
C5_CreatedPendingAndActive == [][C5_Step]_vars

\* C5 witness: a second product has been inserted, pending and active, and
\* is about to be fetched and returned.
C5_Witness ==
  \E p \in Callers :
    /\ pc[p] = "reread" /\ op[p] = "createProduct"
    /\ Cardinality(Stored("products")) = 2
    /\ arg[p] \in getAllProducts \cap getUnsyncedProducts

C6_Step ==
  \A p \in Callers :
    UpdateStep(p) \/ SoftDeleteStep(p) =>
      LET k == KindOf(op[p])
          id == arg'[p]
      IN id \in DOMAIN tables[k] =>
           /\ id \in DOMAIN tables'[k]
           /\ tables'[k][id].sync_status = "pending"
           /\ TextLeq(tables[k][id].updated_at, tables'[k][id].updated_at)
           /\ Instant(tables[k][id].updated_at) <= Instant(tables'[k][id].updated_at)

\* C6: the UPDATE of an update or a soft delete leaves the record it matches
\* with sync_status 'pending' and with an updated_at not before the one it
\* had (as TEXT and as an instant), whatever the record's sync_status was and
\* whatever the caller supplied.
C6_MutationPendingAndStamped == [][C6_Step]_vars

\* C6 witness: an update that supplied sync_status and updated_at has
\* rewritten a synced record, which is pending again.
C6_Witness ==
  \E p \in Callers :
    /\ pc[p] = "reread" /\ op[p] = "updateProduct"
    /\ \E r \in hit[p] : r.sync_status = "synced" /\ r.deleted_at = NULL
    /\ Row("products", arg[p]).sync_status = "pending"

\* C6, the other operation: a soft delete of a synced record.
C6_WitnessDelete ==
  \E p \in Callers :
    /\ SoftDeleted(p)
    /\ \E r \in hit[p] : r.sync_status = "synced" /\ r.deleted_at = NULL

C7_State ==
  /\ \A i \in ProductIds :
       /\ i \in getAllProducts <=> i \in Stored("products") /\ Row("products", i).deleted_at = NULL
       /\ getProductById(i, FALSE) = i <=> i \in getAllProducts
       /\ getProductById(i, FALSE) \in {i, ""}
       /\ i \in Stored("products") => getProductById(i, TRUE) = i
       /\ i \notin Stored("products") => getProductById(i, TRUE) = ""
  /\ \A i \in SaleIds :
       /\ i \in getAllSales <=> i \in Stored("sales") /\ Row("sales", i).deleted_at = NULL
       /\ getSaleById(i, FALSE) = i <=> i \in getAllSales
       /\ getSaleById(i, FALSE) \in {i, ""}
       /\ i \in Stored("sales") => getSaleById(i, TRUE) = i
       /\ i \notin Stored("sales") => getSaleById(i, TRUE) = ""

\* The default reads of table k in the next state.
C7_Hidden(k, i) ==
  /\ i \notin SelectActive(tables'[k])
  /\ SelectById(tables'[k], i, FALSE) = ""
  /\ SelectById(tables'[k], i, TRUE) = i

C7_Step ==
  /\ \A p \in Callers :
       SoftDeleteStep(p) /\ arg'[p] \in Stored(KindOf(op[p]))
         => C7_Hidden(KindOf(op[p]), arg'[p])
  /\ \A k \in Kinds : \A i \in Stored(k) \ SelectActive(Table(k)) :
       i \in DOMAIN tables'[k] => C7_Hidden(k, i)

\* C7: getAll returns exactly the stored records whose deleted_at is NULL;
\* getById without includeDeleted finds exactly those, and with it every
\* stored record; a record a soft delete has hit is hidden from the default
\* reads from then on, for as long as it is stored.
C7_DefaultReadsHideSoftDeleted == [](C7_State) /\ [][C7_Step]_vars

\* C7 witness: one product is soft-deleted and hidden, another is active and
\* returned.
C7_Witness ==
  /\ \E p \in Callers : SoftDeleted(p) /\ arg[p] \in Stored("products") \ getAllProducts
  /\ getAllProducts # {}

C8_State ==
  /\ getUnsyncedProducts =
       {i \in Stored("products") : Row("products", i).sync_status # "synced"}
  /\ getUnsyncedSales = {i \in Stored("sales") : Row("sales", i).sync_status # "synced"}
  /\ \A k \in Kinds : \A i \in Stored(k) : Row(k, i).sync_status \in {"pending", "synced"}

C8_Step ==
  \A p \in Callers :
    LET k == KindOf(op[p])
        id == arg'[p]
    IN /\ SoftDeleteStep(p) /\ id \in Stored(k)
            => /\ id \notin SelectActive(tables'[k])
               /\ id \in SelectPending(tables'[k])
               /\ tables'[k][id].deleted_at # NULL
       /\ InsertStep(p) \/ (UpdateStep(p) /\ id \in Stored(k))
            => id \in SelectPending(tables'[k])
       /\ MarkStep(p)
            => \A i \in Stored(k) :
                 tables'[k][i] # tables[k][i] => i \notin SelectPending(tables'[k])

\* C8: getUnsynced returns exactly the stored records that are 'pending' and
\* none that is 'synced'; a record a soft delete has hit is left out by
\* getAll and returned by getUnsynced with deleted_at set; what create and
\* update wrote is returned, what markAsSynced wrote is not.
C8_UnsyncedArePendingRows == [](C8_State) /\ [][C8_Step]_vars

\* C8 witness: a synced product was soft-deleted; getAllProducts leaves it
\* out and getUnsyncedProducts returns it.
C8_Witness ==
  \E p \in Callers :
    /\ SoftDeleted(p)
    /\ \E r \in hit[p] : r.sync_status = "synced"
    /\ arg[p] \in getUnsyncedProducts \ getAllProducts
    /\ \E i \in Stored("products") : i \notin getUnsyncedProducts

C9_Step ==
  \A p \in Callers :
    LET k == KindOf(op[p])
        id == arg'[p]
    IN SoftDeleteStep(p) /\ id \in Stored(k) \ SelectActive(Table(k))
         => /\ tables'[k][id].deleted_at = tables[k][id].deleted_at
            /\ tables'[k][id].updated_at = tables[k][id].updated_at
            /\ tables'[k][id].sync_status = "pending"
            /\ id \notin SelectActive(tables'[k])
            /\ id \in SelectPending(tables'[k])

\* C9: a soft delete of a record that is soft-deleted already leaves its
\* deleted_at and updated_at as the first soft delete set them, its
\* sync_status 'pending', and the record out of getAll and in getUnsynced.
C9_SoftDeleteIdempotent == [][C9_Step]_vars

C10_Step ==
  \A k \in Kinds : \A i \in Stored(k) :
    Row(k, i).deleted_at # NULL /\ i \in DOMAIN tables'[k]
      => tables'[k][i].deleted_at # NULL

C4_State ==
  /\ Screen = "nav" => isInitialized /\ ret[AppProc] = "ok"
  /\ \A p \in Callers : pc[p] # "idle" => isInitialized /\ ret[AppProc] = "ok"
  /\ RowCount > 0 => isInitialized
  /\ initError # "" =>
       /\ Screen = "error"
       /\ ~isInitialized
       /\ \A p \in Callers : pc[p] = "idle"
  /\ openCalls <= 1

C4_Step ==
  /\ initError # "" => initError' = initError /\ isDBReady' = isDBReady
  /\ \A p \in Callers : pc[p] = "idle" /\ pc'[p] # "idle" => Screen = "nav"

\* C4: the navigator is rendered, and a repository call is issued, only
\* after App's single initializeDatabase() call has succeeded; after a
\* failure App stays on the error screen and no repository call is issued.
C4_ScreensOnlyAfterInit == [](C4_State) /\ [][C4_Step]_vars

\* C4 witness: initialization succeeded, the navigator is up and a screen
\* has a repository call in progress.
C4_Witness ==
  /\ Screen = "nav"
  /\ \E p \in Callers : pc[p] = "ensured" /\ op[p] = "getAllProducts"

\* C4, the other case: initialization failed and the error screen is up.
C4_WitnessError == Screen = "error" /\ initTask[1] = "rejected"

\* ------------------------------------------------------- claims C11 to C13
\* The re-read of an update by process p settles its call.
UpdateFetchStep(p) ==
  op[p] \in {"updateProduct", "updateSale"} /\ pc[p] = "reread" /\ pc'[p] = "returned"

C11_Step ==
  \A p \in Callers :
    LET k == KindOf(op[p]) IN
      /\ UpdateStep(p)
           => (arg'[p] \in SelectActive(tables[k]) <=> arg'[p] \in SelectActive(tables'[k]))
      /\ UpdateFetchStep(p)
           => /\ ret'[p] \in {"ok", ErrNotFoundAfterUpdate}
              /\ ret'[p] = "ok" <=> arg[p] \in SelectActive(tables[k])
              /\ tables' = tables

C11_WitnessAbsent ==
  \E p \in Callers :
    /\ pc[p] = "returned" /\ ret[p] = ErrNotFoundAfterUpdate
    /\ hit[p] = {} /\ arg[p] \notin Stored("products") \cup Stored("sales")

C12_Step ==
  \A p \in Callers :
    UpdateStep(p) \/ UpdateFetchStep(p) =>
      \A k \in Kinds :
        /\ DOMAIN tables'[k] = DOMAIN tables[k]
        /\ \A i \in DOMAIN tables[k] :
             /\ tables'[k][i].created_at = tables[k][i].created_at
             /\ tables'[k][i].deleted_at = tables[k][i].deleted_at

C13_Step ==
  \A p \in Callers :
    MarkStep(p) =>
      LET k == KindOf(op[p])
          id == arg'[p]
      IN /\ \A j \in Kinds : DOMAIN tables'[j] = DOMAIN tables[j]
         /\ \A j \in Kinds : \A i \in DOMAIN tables[j] :
              IF j = k /\ i = id
                THEN tables'[j][i] = [tables[j][i] EXCEPT !.sync_status = "synced"]
                ELSE tables'[j][i] = tables[j][i]
         /\ now' = now

\* C13: markProductAsSynced / markSaleAsSynced set sync_status 'synced' on
\* the record with the id and leave its other columns, and every other
\* record, as they were.
C13_MarkSyncedFrame == [][C13_Step]_vars

\* C13 witness: a record updated after its creation has been marked synced.
C13_Witness ==
  \E p \in Callers :
    /\ pc[p] = "returned" /\ ret[p] = "ok" /\ hit[p] = {}
    /\ arg[p] \in Stored("products")
    /\ Row("products", arg[p]).sync_status = "synced"
    /\ Row("products", arg[p]).updated_at # Row("products", arg[p]).created_at

\* ------------------------------------------------------- claims C17, C18
\* C17: getAllSalesWithProducts returns exactly one entry for each sale that
\* is not soft-deleted and whose product is stored and not soft-deleted,
\* carrying that product's id, name and price.
C17_JoinOfActiveSalesAndProducts ==
  getAllSalesWithProducts =
    {[sale |-> i,
      product |-> {[id |-> Row("sales", i).product_id,
                    name |-> Row("products", Row("sales", i).product_id).name,
                    price |-> Row("products", Row("sales", i).product_id).price]}] :
       i \in {j \in getAllSales : Row("sales", j).product_id \in getAllProducts}}

C18_Step ==
  \A p \in Callers :
    op[p] \in {"updateProduct", "deleteProduct"} /\ pc'[p] # pc[p] =>
      /\ tables'.sales = tables.sales
      /\ getAllSales' = getAllSales
      /\ \A i \in ProductIds : getSalesByProductId(i)' = getSalesByProductId(i)

\* C18: no step of updateProduct or deleteProduct modifies the sales table;
\* getAllSales and getSalesByProductId return what they returned before it.
C18_ProductWritesLeaveSales == [][C18_Step]_vars

\* C18 witness: a product with a sale has been soft-deleted and the sale is
\* still returned by getAllSales and getSalesByProductId.
C18_Witness ==
  \E p \in Callers :
    /\ SoftDeleted(p)
    /\ arg[p] \in Stored("products") \ getAllProducts
    /\ getSalesByProductId(arg[p]) # {}
    /\ getSalesByProductId(arg[p]) \subseteq getAllSales

\* The step in which the sales service's createSale of process p inserts
\* its row.
SvcSaleInsertStep(p) ==
  svc[p].fn = "createSale" /\ op[p] = "createSale" /\ InsertStep(p)

\* The step in which the product lookup of createSale of process p finds no
\* active product.
SvcSaleNoProductStep(p) ==
  /\ svc[p].fn = "createSale" /\ op[p] = "getProductById" /\ pc[p] = "ensured"
  /\ getProductById(svc[p].productId, FALSE) = ""
  /\ pc'[p] = "returned"

C14_Step ==
  \A p \in Clients :
    /\ SvcSaleInsertStep(p) => svc[p].data.product_id \in SelectActive(tables.products)
    /\ SvcSaleNoProductStep(p) => ret'[p] = ErrProductNotFound /\ tables' = tables

\* C14: whenever the sales service's createSale inserts a sale row, the
\* product it references is stored and not soft-deleted at that moment,
\* whatever deleteProduct calls run beside it; a createSale for a missing or
\* soft-deleted product fails with 'Product not found' and inserts nothing.
C14_ProductActiveAtInsert == [][C14_Step]_vars

\* The step in which the sales service's updateSale of process p runs its
\* UPDATE.
SvcSaleUpdateStep(p) ==
  svc[p].fn = "updateSale" /\ op[p] = "updateSale" /\ UpdateStep(p)

\* The total of sale row r is its quantity times the price its product has
\* in table tblProducts.
TotalConsistent(r, tblProducts) ==
  /\ r.product_id \in DOMAIN tblProducts
  /\ r.total = JsTimes(r.quantity, tblProducts[r.product_id].price)

C15_Step ==
  \A p \in Clients :
    (SvcSaleInsertStep(p) \/ SvcSaleUpdateStep(p)) =>
      \A id \in SelectActive(tables'.sales) \cap {arg'[p]} :
        TotalConsistent(tables'.sales[id], tables'.products)

\* C15: when the sales service's createSale or updateSale has written an
\* active sale, the stored total is the stored quantity times the price the
\* stored product_id has at that write, also for an updateSale that passes
\* neither a quantity nor a product_id.
C15_TotalConsistentAtWrite == [][C15_Step]_vars

\* The columns of the sale that an updateSale with updateData data read from
\* currentSale to compute its total, and does not write itself.
ReadForTotal(data) ==
  IF "total" \in DOMAIN data THEN {"product_id", "quantity"} \ DOMAIN data ELSE {}

C16_Step ==
  \A p \in Clients :
    SvcSaleUpdateStep(p) =>
      \A id \in SelectActive(tables'.sales) \cap {arg'[p]} :
        \A c \in ReadForTotal(svc[p].data) :
          svc[p].currentSale[c] = tables'.sales[id][c]

\* C16: when updateSale calls on one sale overlap, no call writes a total
\* computed from a quantity or product_id that another call has overwritten:
\* what the row holds after each UPDATE is what the calls would leave in
\* some order one after the other.
C16_NoTornUpdate == [][C16_Step]_vars

\* The business rules: a name is not empty, a price and a quantity are
\* greater than 0.
RuleHolds(c, v) ==
  IF c = "name" THEN v # ""
  ELSE IF c \in {"price", "quantity"} THEN v # NaN /\ v > 0
  ELSE TRUE

RulesHold(data) == \A c \in DOMAIN data : RuleHolds(c, data[c])

StoredRulesHold ==
  \A k \in Kinds : \A id \in Stored(k) : RulesHold(Row(k, id))

\* The names, prices and quantities a service function was called with, as
\* the frame of its call holds them.
RuledArguments(frame) ==
  IF "data" \in DOMAIN frame THEN frame.data
  ELSE IF "updates" \in DOMAIN frame THEN frame.updates
  ELSE IF "quantity" \in DOMAIN frame THEN [quantity |-> frame.quantity]
  ELSE <<>>

\* A service call that gets past its validation into a repository function
\* has arguments that keep the rules.
C19_Step ==
  \A p \in Clients :
    (svc[p].fn = "none" /\ svc'[p].fn # "none") => RulesHold(RuledArguments(svc'[p]))

\* C19: after any service calls every stored product has a non-empty name
\* and a price > 0 and every stored sale a quantity > 0, and a call whose
\* arguments break one of these rules fails in the service's validation,
\* before any repository function is entered, leaving the tables unchanged.
C19_RulesCaughtByServices == [](StoredRulesHold) /\ [][C19_Step]_vars

\* The sync cycle of process p has made its last repository call and is
\* about to return its counts.
SyncCompletes(p) ==
  /\ pc[p] = "returned" /\ ret[p] = "ok"
  /\ svc[p].fn = "syncProducts" /\ "at" \in DOMAIN svc[p]
  /\ svc[p].at # "update" /\ svc[p].synced = {} /\ DOMAIN svc[p].conflicts = {}

\* Local product id holds the server's copy sr and counts as synced.
HoldsServerCopy(id, sr) ==
  /\ id \in Stored("products")
  /\ \A c \in DOMAIN sr \ {"sync_status"} : Row("products", id)[c] = sr[c]
  /\ Row("products", id).sync_status = "synced"

\* C20: when a sync cycle completes, every product the server answered
\* 'conflicting' for, with a copy whose updated_at is later than the local
\* one, holds every field of that copy, updated_at included, and is synced.
C20_ConflictTakesServerCopy ==
  \A p \in Clients :
    SyncCompletes(p) =>
      \A id \in DOMAIN svc[p].resolved : HoldsServerCopy(id, svc[p].resolved[id])

\* An attempt of initializeDatabase() fails in this step.
InitFailsStep == \E a \in Attempts : initTask[a] # "rejected" /\ initTask'[a] = "rejected"

C30_State ==
  /\ isInitialized => sqliteDb # 0 /\ drizzleDb # 0 /\ initializationPromise # 0
  /\ getDB # 0 <=> isInitialized
  /\ getSQLiteDB # 0 <=> isInitialized

C30_Step ==
  InitFailsStep =>
    sqliteDb' = 0 /\ drizzleDb' = 0 /\ isInitialized' = FALSE /\ initializationPromise' = 0

\* C30: whenever isInitialized is true, both handles and initializationPromise
\* are set; a failed initialization puts all four back to their initial
\* values; getDB() and getSQLiteDB() return a handle exactly when
\* isInitialized is true and throw otherwise.
C30_ClientStateConsistent == [](C30_State) /\ [][C30_Step]_vars

\* The database is ready after an earlier attempt failed.
C30_Witness == isInitialized /\ \E a \in Attempts : initTask[a] = "rejected"

\* The handles are set while the migrations still run: getDB() throws.
C30_WitnessMigrating == drizzleDb # 0 /\ ~isInitialized

\* C28: when updateProduct / updateSale throws because no active record has
\* the id, storage is as it was before the call: the record its UPDATE
\* matched, if any, still has the fields, updated_at and sync_status it had.
C28_Step ==
  \A p \in Callers :
    (UpdateFetchStep(p) /\ ret'[p] = ErrNotFoundAfterUpdate) =>
      /\ tables' = tables
      /\ \A r \in hit[p] : Row(KindOf(op[p]), arg[p]) = r

C28_FailedUpdateLeavesStorage == [][C28_Step]_vars

\* C29: referential integrity: every row of sales has the product_id of a
\* row that is present in products, active or soft-deleted.
C29_SalesReferenceProducts ==
  \A id \in Stored("sales") : Row("sales", id).product_id \in Stored("products")

\* A call of runMigrations settles in this step.
MigrationsStep == \E a \in Attempts : initTask[a] = "migrating" /\ initTask'[a] # "migrating"
MigrationsDoneStep == \E a \in Attempts : initTask[a] = "migrating" /\ initTask'[a] = "fulfilled"

\* The database holds the products and sales tables and five indexes.
Migrated(objects) ==
  /\ {"products", "sales"} \subseteq objects
  /\ Cardinality(objects \ {"products", "sales"}) = 5

C26_Step ==
  /\ (MigrationsStep /\ Migrated(schema)) => schema' = schema /\ tables' = tables
  /\ (MigrationsDoneStep /\ schema = {}) => Migrated(schema')

\* C26: runMigrations on a database where it already succeeded leaves the
\* tables, the indexes and every stored row as they are, and on an empty
\* database it creates the products and sales tables and their five indexes.
C26_MigrationsIdempotent == [][C26_Step]_vars

\* runMigrations has succeeded a second time, on a database with a product.
C26_Witness ==
  /\ migrationCalls = 2
  /\ \A a \in 1..2 : initTask[a] = "fulfilled"
  /\ Stored("products") # {}

\* The step in which getProductById / getSaleById of the services, called by
\* process p for table k, ends without an active record of the id.
SvcGetByIdMissStep(p, k) ==
  /\ svc[p].fn = (IF k = "products" THEN "getProductById" ELSE "getSaleById")
  /\ pc[p] = "ensured" /\ pc'[p] = "returned"
  /\ Gate(p) = "ok"
  /\ svc[p].id \notin SelectActive(Table(k))

\* C27: the services' getProductById(id) and getSaleById(id) fail with
\* 'Product not found' / 'Sale not found' when no active record has the id,
\* which tells a missing record from a storage failure.
C27_Step ==
  \A p \in Clients : \A k \in Kinds :
    SvcGetByIdMissStep(p, k) => ret'[p] = SvcNotFound(k)

C27_NotFoundDistinguished == [][C27_Step]_vars

\* The step in which the loadProducts() / loadSales() call of process p for
\* hook k resumes after the cleanup of the focus effect that made it has run.
StaleLoadStep(p, k) ==
  /\ svc[p].fn = LoadFn(k) /\ pc[p] = "ensured" /\ pc'[p] = "returned"
  /\ focusEffect[k].cancelled

\* C25: a loadProducts() / loadSales() call that is in flight when the focus
\* effect's cleanup runs writes neither its result nor its error into the
\* hook state when it arrives, and reports cancelled = true.
C25_Step ==
  \A p \in Clients : \A k \in Kinds :
    StaleLoadStep(p, k) =>
      hookState'[k] = hookState[k] /\ ret'[p] = LoadResult(TRUE)

C25_StaleLoadCancelled == [][C25_Step]_vars

\* The step in which `await fetch(...)` of the sync cycle of process p rejects.
TransportFailureStep(p) ==
  /\ svc[p].fn = "syncToLaravel" /\ pc[p] = "awaitFetch"
  /\ ret'[p] = ErrTransport

\* The step in which the sync cycle of process p executes repository
\* function o on the record of its loop.
CycleWriteStep(p, o) ==
  /\ svc[p].fn = "syncToLaravel" /\ op[p] = o
  /\ pc[p] = "ensured" /\ pc'[p] = "returned" /\ ret'[p] = "ok"

\* C21: a sync cycle that fails with a transport error has marked no record
\* synced and hard-deleted none, and its failure leaves the stored records
\* and so the result of getUnsynced as they were: the cycle marks and
\* hard-deletes only after a response has arrived.
C21_Step ==
  \A p \in Clients :
    /\ TransportFailureStep(p) =>
         /\ svc[p].marked = {} /\ svc[p].removed = {}
         /\ tables' = tables
         /\ SelectPending(tables'.products) = SelectPending(tables.products)
         /\ svc'[p] = NoService
    /\ \A o \in {"markProductAsSynced", "hardDeleteProduct"} :
         CycleWriteStep(p, o) => svc[p].response

C21_RetrySafe == [][C21_Step]_vars

\* A sync cycle has failed with a transport error while products were
\* pending, and they still are.
C21_Witness ==
  \E p \in Clients :
    /\ ret[p] = ErrTransport /\ svc[p].fn = "none"
    /\ getUnsyncedProducts # {}

\* C22: in no reachable state are two sync cycles for products in flight at
\* the same time.
C22_OneCycleInFlight ==
  Cardinality({p \in Clients : svc[p].fn = "syncToLaravel"}) <= 1

\* C23: a sync cycle hard-deletes a record only if the record is
\* soft-deleted and the server accepted it in that cycle.
C23_Step ==
  \A p \in Clients :
    (CycleWriteStep(p, "hardDeleteProduct") /\ svc[p].id \in Stored("products")) =>
      /\ Row("products", svc[p].id).deleted_at # NULL
      /\ svc[p].id \in svc[p].accepted

C23_HardDeleteAfterAccepted == [][C23_Step]_vars

\* C24: a sync cycle marks a record synced only while the record's stored
\* state is the one the cycle transmitted.
C24_Step ==
  \A p \in Clients :
    (CycleWriteStep(p, "markProductAsSynced") /\ svc[p].id \in Stored("products")) =>
      Row("products", svc[p].id) = svc[p].pendingProducts[svc[p].id]

C24_SyncedIsAcknowledged == [][C24_Step]_vars

====
